---- MODULE Spec2Model ----
(***************************************************************************)
(* Model of the fashion-store sales loader: src/Ingestion/main.py (the     *)
(* command-line script) and src/dags/fashion_sales_dag.py (the Airflow     *)
(* task `ingest`).  One invocation filters the CSV extract to a business   *)
(* date, resolves the dimensions, builds and upserts customers, products,  *)
(* sales and sale items in one transaction, and commits.                   *)
(*                                                                         *)
(* Cells of the data frame are strings.  NaN is the missing-value cell     *)
(* pandas produces for an empty CSV field.  SQL NULL / Python None in a    *)
(* stored tuple is the empty sequence <<>>, a present value v is <<v>>.    *)
(***************************************************************************)
EXTENDS Integers, Sequences, FiniteSets, TLC

VARIABLES
    extract,      \* the CSV object in the bucket: [has_sale_date, rows]
    db,           \* the committed contents of every table
    work,         \* the tables as the open transaction sees them
    pc,           \* where the current invocation stands
    impl,         \* which program runs: "main" or "dag"
    run_dt,       \* the parsed business date of the invocation
    df,           \* the filtered data frame (a sequence of rows)
    maps,         \* the value -> id mapping of each simple dimension
    campaign_map, \* (channel_name, campaign_name) -> campaign_id
    staged,       \* the tuple lists handed to the four upserts
    io,           \* what the invocation did to the outside world
    result,       \* what the invocation returned or raised, and its last log line
    dbBefore,     \* db when the invocation started
    last          \* the program and date of the previous invocation, if it committed

vars == <<extract, db, work, pc, impl, run_dt, df, maps, campaign_map, staged,
          io, result, dbBefore, last>>

\* ------------------------------------------------------------------ bounds

\* Rows of the extract.
MaxRows == 2

\* ------------------------------------------------------------------ values

NaN == "NaN"
None == <<>>
Some(v) == <<v>>

Range(s) == {s[i] : i \in DOMAIN s}

\* pd.isna(x)
isna(x) == x = NaN

\* str(x) of a cell, also Series.astype(str): the missing value reads "nan".
Str(x) == IF x = NaN THEN "nan" ELSE x

\* s.strip() over the strings of the model.
Strip(s) ==
    CASE s = " Online" -> "Online"
      [] s = " FR"     -> "FR"
      [] s = " "       -> ""
      [] OTHER         -> s

\* Python truthiness of a string.
Truthy(s) == s # ""

\* The dates of the model, as datetime.date values.
D1 == "2025-06-16"
D2 == "2025-06-17"
NaT == "NaT"

\* datetime.strptime(s, "%Y%m%d").date(); InvalidDate when strptime raises.
\* strptime takes a month or day of one digit, so "2025616" is read as
\* 2025-06-16.
InvalidDate == "ValueError"
parse_yyyymmdd(s) ==
    CASE s = "20250616" -> D1
      [] s = "20250617" -> D2
      [] s = "2025616"  -> D1
      [] OTHER          -> InvalidDate

\* pd.to_datetime(cell, errors="coerce").dt.date: what does not parse is NaT.
to_datetime(x) ==
    CASE x = "2025-06-16" -> D1
      [] x = "2025-06-17" -> D2
      [] OTHER            -> NaT

\* int(x) of a numeric cell, as the loops call it: <<n>>, or <<>> when int()
\* raises ValueError (int(nan): "cannot convert float NaN to integer").
IntOf(x) ==
    CASE x = "1" -> <<1>>
      [] x = "2" -> <<2>>
      [] x = "3" -> <<3>>
      [] OTHER   -> <<>>

\* Decimal(str(x)): the canonical numeral, or Malformed when Decimal raises.
Malformed == "InvalidOperation"
DecimalOf(s) ==
    CASE s = "10"   -> "10"
      [] s = "12.5" -> "12.5"
      [] s = "0"    -> "0"
      [] OTHER      -> Malformed

\* to_decimal(x) of main.py and the inline expression of the DAG:
\* missing is 0, malformed raises.
to_decimal(x) == IF isna(x) THEN "0" ELSE DecimalOf(Str(x))

\* float(x) of a cell of the frame (total_amount): float(nan) is nan, a text
\* that is no number raises ValueError.
to_float(x) == IF isna(x) THEN NaN ELSE DecimalOf(Str(x))

\* Decimal(s) of the text left of a percentage, in hundredths of a percent
\* (so that d = Decimal(s) / 100 is that number of ten-thousandths): <<n>>,
\* or <<>> when Decimal raises InvalidOperation.
PctUnits(s) ==
    CASE s = "10"   -> <<1000>>
      [] s = "12.5" -> <<1250>>
      [] s = "150"  -> <<15000>>
      [] s = "-5"   -> <<-500>>
      [] s = "100"  -> <<10000>>
      [] s = "0"    -> <<0>>
      [] OTHER      -> <<>>

\* The steps of percent_str_to_decimal on the text of the cell.
PctStrip(s) == CASE s = " 10% " -> "10%" [] OTHER -> Strip(s)
EndsWithPct(s) == s \in {"10%", "12.5%", "12,5%", "150%", "-5%", "100%", "0%", "%", "abc%"}
DropLast(s) ==
    CASE s = "10%"   -> "10"
      [] s = "12.5%" -> "12.5"
      [] s = "12,5%" -> "12,5"
      [] s = "150%"  -> "150"
      [] s = "-5%"   -> "-5"
      [] s = "100%"  -> "100"
      [] s = "0%"    -> "0"
      [] s = "%"     -> ""
      [] s = "abc%"  -> "abc"
ReplaceComma(s) == CASE s = "12,5" -> "12.5" [] OTHER -> s

\* percent_str_to_decimal without its two clamping tests.
percent_not_clamped(x) ==
    IF isna(x) THEN <<0>>
    ELSE LET s1 == PctStrip(Str(x))
             s2 == IF EndsWithPct(s1) THEN DropLast(s1) ELSE s1
         IN  IF s2 = "" THEN <<0>>
             ELSE PctUnits(ReplaceComma(s2))

\* percent_str_to_decimal(x): <<d>>, the fraction in ten-thousandths clamped
\* to [0, 10000]; <<>> when Decimal(s) raises.
percent_str_to_decimal(x) ==
    IF isna(x) THEN <<0>>
    ELSE LET s1 == PctStrip(Str(x))
             s2 == IF EndsWithPct(s1) THEN DropLast(s1) ELSE s1
         IN  IF s2 = "" THEN <<0>>
             ELSE LET d == PctUnits(ReplaceComma(s2))
                  IN  IF d = <<>> THEN <<>>
                      ELSE IF d[1] < 0 THEN <<0>>
                      ELSE IF d[1] > 10000 THEN <<10000>>
                      ELSE d
\* ------------------------------------------------------------------ tables

\* The simple dimensions; a row of the frame has a column of the same name.
Dims == {"channel", "category", "brand", "color", "size", "country"}

\* Every table empty.  A simple dimension holds rows [id, name]; dim_campaign
\* rows [id, channel_id, name]; the other four are keyed by their own id.
EmptyDb ==
    [dim      |-> [d \in Dims |-> {}],
     campaign |-> {},
     customer |-> {},
     product  |-> {},
     sale     |-> {},
     item     |-> {}]

\* The outcome of a statement or of a function: err is "" when it returned.
OK == ""

Max(S) == CHOOSE m \in S : \A x \in S : x <= m

\* The id the database generates for a new row of a table with a serial id
\* column: one no row of the table holds.
NextId(tbl) == IF tbl = {} THEN 1 ELSE Max({r.id : r \in tbl}) + 1

\* The insert without its ON CONFLICT clause finding the row: every name
\* gets a new row.
RECURSIVE InsertNamesAlways(_, _)
InsertNamesAlways(tbl, names) ==
    IF names = {} THEN tbl
    ELSE LET n == CHOOSE x \in names : TRUE
         IN  InsertNamesAlways(tbl \cup {[id |-> NextId(tbl), name |-> n]}, names \ {n})

\* The insert replacing the row of a name already in the table by a new one.
RECURSIVE InsertNamesReplace(_, _)
InsertNamesReplace(tbl, names) ==
    IF names = {} THEN tbl
    ELSE LET n == CHOOSE x \in names : TRUE
             t == {r \in tbl : r.name # n}
         IN  InsertNamesReplace(t \cup {[id |-> NextId(tbl), name |-> n]}, names \ {n})

\* INSERT INTO <dim> (name) VALUES ... ON CONFLICT (name) DO NOTHING:
\* the names already in the table are left alone, each other gets a new id.
RECURSIVE InsertNames(_, _)
InsertNames(tbl, names) ==
    IF names = {} THEN tbl
    ELSE LET n == CHOOSE x \in names : TRUE
             t == IF \E r \in tbl : r.name = n
                    THEN tbl
                    ELSE tbl \cup {[id |-> NextId(tbl), name |-> n]}
         IN  InsertNames(t, names \ {n})

\* SELECT id, name FROM <dim> WHERE name = ANY(values), then
\* {r[1]: r[0] for r in rows}.
SelectNames(tbl, names) ==
    LET rows == {r \in tbl : r.name \in names}
    IN  [n \in {r.name : r \in rows} |-> (CHOOSE r \in rows : r.name = n).id]

\* upsert_simple_dim of main.py.  The set keeps the cells themselves, so a
\* missing cell stays the float nan ("nan" is not blank): sorted() raises
\* TypeError on a set that mixes it with strings, and a set of nan alone is
\* sent to the database as a float, which the SELECT cannot compare with the
\* text column.
upsert_simple_dim_main(tbl, values) ==
    LET kept == {v \in Range(values) : Strip(Str(v)) # ""}
    IN  IF kept = {} THEN [err |-> OK, tbl |-> tbl, map |-> <<>>]
        ELSE IF NaN \in kept /\ kept # {NaN}
             THEN [err |-> "TypeError", tbl |-> tbl, map |-> <<>>]
        ELSE IF kept = {NaN}
             THEN [err |-> "UndefinedFunction", tbl |-> tbl, map |-> <<>>]
        ELSE LET t == InsertNames(tbl, kept)
             IN  [err |-> OK, tbl |-> t, map |-> SelectNames(t, kept)]

\* upsert_simple_dim of the DAG: the set keeps str(v).strip().
upsert_simple_dim_dag(tbl, values) ==
    LET kept == {Strip(Str(v)) : v \in {w \in Range(values) : Strip(Str(w)) # ""}}
    IN  IF kept = {} THEN [err |-> OK, tbl |-> tbl, map |-> <<>>]
        ELSE LET t == InsertNames(tbl, kept)
             IN  [err |-> OK, tbl |-> t, map |-> SelectNames(t, kept)]

upsert_simple_dim(program, tbl, values) ==
    IF program = "main" THEN upsert_simple_dim_main(tbl, values)
    ELSE upsert_simple_dim_dag(tbl, values)

\* dict.get(key): <<value>>, or <<>> for None.
Get(map, key) == IF key \in DOMAIN map THEN Some(map[key]) ELSE None

\* The campaign insert without its ON CONFLICT clause finding the row: every
\* pair gets a new row.
RECURSIVE InsertCampaignsAlways(_, _)
InsertCampaignsAlways(tbl, cleaned) ==
    IF cleaned = {} THEN tbl
    ELSE LET c == CHOOSE x \in cleaned : TRUE
         IN  InsertCampaignsAlways(
                 tbl \cup {[id |-> NextId(tbl), channel_id |-> c[1], name |-> c[2]]},
                 cleaned \ {c})

\* INSERT INTO dim_campaign (channel_id, campaign_name) VALUES ...
\* ON CONFLICT (channel_id, campaign_name) DO NOTHING.
RECURSIVE InsertCampaigns(_, _)
InsertCampaigns(tbl, cleaned) ==
    IF cleaned = {} THEN tbl
    ELSE LET c == CHOOSE x \in cleaned : TRUE
             t == IF \E r \in tbl : r.channel_id = c[1] /\ r.name = c[2]
                    THEN tbl
                    ELSE tbl \cup {[id |-> NextId(tbl), channel_id |-> c[1], name |-> c[2]]}
         IN  InsertCampaigns(t, cleaned \ {c})

\* upsert_dim_campaign reading back only the rows it has just inserted.
upsert_dim_campaign_new_only(tbl, channel_map, pairs) ==
    LET cleaned == {<<channel_map[p[1]], p[2]>> :
                      p \in {q \in Range(pairs) :
                               /\ Truthy(q[1]) /\ Truthy(q[2])
                               /\ Get(channel_map, q[1]) # None}}
    IN  IF cleaned = {} THEN [err |-> OK, tbl |-> tbl, map |-> <<>>]
        ELSE LET t    == InsertCampaigns(tbl, cleaned)
                 rows == {r \in t \ tbl : <<r.channel_id, r.name>> \in cleaned}
                 names(cid) == {k \in DOMAIN channel_map : channel_map[k] = cid}
                 keyed == {r \in rows : \E k \in names(r.channel_id) : Truthy(k)}
                 keyOf(r) == <<CHOOSE k \in names(r.channel_id) : TRUE, r.name>>
             IN  [err |-> OK, tbl |-> t,
                  map |-> [k \in {keyOf(r) : r \in keyed} |->
                             (CHOOSE r \in keyed : keyOf(r) = k).id]]

\* upsert_dim_campaign (the same text in both programs): drop the pairs with
\* an empty side or a channel without id, insert the rest if absent, read the
\* ids back and key them by (channel_name, campaign_name).
upsert_dim_campaign(tbl, channel_map, pairs) ==
    LET cleaned == {<<channel_map[p[1]], p[2]>> :
                      p \in {q \in Range(pairs) :
                               /\ Truthy(q[1]) /\ Truthy(q[2])
                               /\ Get(channel_map, q[1]) # None}}
    IN  IF cleaned = {} THEN [err |-> OK, tbl |-> tbl, map |-> <<>>]
        ELSE LET t    == InsertCampaigns(tbl, cleaned)
                 rows == {r \in t : <<r.channel_id, r.name>> \in cleaned}
                 \* channel_id_to_name = {v: k for k, v in channel_map.items()}
                 names(cid) == {k \in DOMAIN channel_map : channel_map[k] = cid}
                 keyed == {r \in rows : \E k \in names(r.channel_id) : Truthy(k)}
                 keyOf(r) == <<CHOOSE k \in names(r.channel_id) : TRUE, r.name>>
             IN  [err |-> OK, tbl |-> t,
                  map |-> [k \in {keyOf(r) : r \in keyed} |->
                             (CHOOSE r \in keyed : keyOf(r) = k).id]]
\* ------------------------------------------------------------------ upserts

Keys(rows, key) == {rows[i][key] : i \in DOMAIN rows}

\* The load that empties the table before it inserts the tuples.
upsert_truncating(tbl, rows, key) ==
    IF rows = <<>> THEN [err |-> OK, tbl |-> tbl]
    ELSE IF \E i, j \in DOMAIN rows : i # j /\ rows[i][key] = rows[j][key]
         THEN [err |-> "CardinalityViolation", tbl |-> tbl]
    ELSE [err |-> OK, tbl |-> Range(rows)]

\* The upsert with ON CONFLICT (key) DO NOTHING: a row already in the table
\* stays as it is.
upsert_do_nothing(tbl, rows, key) ==
    IF rows = <<>> THEN [err |-> OK, tbl |-> tbl]
    ELSE IF \E i, j \in DOMAIN rows : i # j /\ rows[i][key] = rows[j][key]
         THEN [err |-> "CardinalityViolation", tbl |-> tbl]
    ELSE [err |-> OK,
          tbl |-> tbl \cup {r \in Range(rows) : r[key] \notin {x[key] : x \in tbl}}]

\* One INSERT ... VALUES ... ON CONFLICT (key) DO UPDATE SET <every other
\* column> = EXCLUDED.<column>, as execute_values sends it (one statement for
\* up to page_size = 1000 tuples).  Two tuples of the statement with the same
\* key make the database refuse it ("ON CONFLICT DO UPDATE command cannot
\* affect row a second time").
upsert_overwrite(tbl, rows, key) ==
    IF rows = <<>> THEN [err |-> OK, tbl |-> tbl]
    ELSE IF \E i, j \in DOMAIN rows : i # j /\ rows[i][key] = rows[j][key]
         THEN [err |-> "CardinalityViolation", tbl |-> tbl]
    ELSE [err |-> OK,
          tbl |-> {r \in tbl : r[key] \notin Keys(rows, key)} \cup Range(rows)]

upsert_dim_customer(tbl, rows) == upsert_overwrite(tbl, rows, "customer_id")

upsert_dim_product(tbl, rows) == upsert_overwrite(tbl, rows, "product_id")

\* fact_sale(sale_id PK, sale_date, customer_id FK, campaign_id FK): the
\* database refuses a row whose customer or campaign does not exist.
upsert_fact_sale(w, rows) ==
    LET r == upsert_overwrite(w.sale, rows, "sale_id")
    IN  IF r.err # OK THEN r
        ELSE IF \E i \in DOMAIN rows :
                  \/ rows[i].customer_id \notin {c.customer_id : c \in w.customer}
                  \/ rows[i].campaign_id \notin {c.id : c \in w.campaign}
             THEN [err |-> "ForeignKeyViolation", tbl |-> w.sale]
        ELSE r

\* The sale-item upsert on a table without foreign keys.
upsert_fact_sale_item_unchecked(w, rows) == upsert_overwrite(w.item, rows, "item_id")

\* fact_sale_item(item_id PK, sale_id FK, product_id FK, ...).
upsert_fact_sale_item(w, rows) ==
    LET r == upsert_overwrite(w.item, rows, "item_id")
    IN  IF r.err # OK THEN r
        ELSE IF \E i \in DOMAIN rows :
                  \/ rows[i].sale_id \notin {x.sale_id : x \in w.sale}
                  \/ rows[i].product_id \notin {x.product_id : x \in w.product}
             THEN [err |-> "ForeignKeyViolation", tbl |-> w.item]
        ELSE r

\* ------------------------------------------------------------------ tuple building

Proj(r, cols) == [c \in cols |-> r[c]]

\* The k-th smallest member of a set of indices.
Kth(idx, k) == CHOOSE i \in idx : Cardinality({j \in idx : j <= i}) = k

\* DataFrame.drop_duplicates on the columns keyOf reads: of the rows with
\* one key the first stays (missing values count as equal), in frame order.
KeepFirst(rows, keyOf(_)) ==
    LET idx == {i \in DOMAIN rows :
                  \A j \in 1..(i - 1) : keyOf(rows[j]) # keyOf(rows[i])}
    IN  [k \in 1..Cardinality(idx) |-> rows[Kth(idx, k)]]

\* A loop that appends a tuple per row, skips a row (continue) or raises:
\* the first raise ends it.
Skip == [kind |-> "skip"]
Row(t) == [kind |-> "row", row |-> t]
Raise(e) == [kind |-> "raise", err |-> e]

Loop(rows, step(_)) ==
    LET res  == [i \in DOMAIN rows |-> step(rows[i])]
        bad  == {i \in DOMAIN rows : res[i].kind = "raise"}
        kept == {i \in DOMAIN rows : res[i].kind = "row"}
    IN  IF bad # {}
        THEN [err |-> res[Kth(bad, 1)].err, rows |-> <<>>]
        ELSE [err |-> OK,
              rows |-> [k \in 1..Cardinality(kept) |-> res[Kth(kept, k)].row]]

CustCols == {"customer_id", "first_name", "country"}
ProdCols == {"product_id", "category", "brand", "color", "size", "cost_price"}

\* The foreign key of a customer or product tuple:
\* <map>.get(str(value)) if not pd.isna(value) else None.
Lookup(map, value) == IF isna(value) THEN None ELSE Get(map, Str(value))

\* 3.3 Customers.  first_name stands for the five text attributes, which the
\* code copies in the same way.
customer_step(m, r) ==
    IF isna(r.customer_id) THEN Skip
    ELSE IF IntOf(r.customer_id) = <<>> THEN Raise("ValueError")
    ELSE Row([customer_id |-> IntOf(r.customer_id)[1],
              first_name  |-> IF isna(r.first_name) THEN None ELSE Some(Str(r.first_name)),
              country_id  |-> Lookup(m["country"], r.country)])

build_cust_rows(frame, m) ==
    Loop(KeepFirst(frame, LAMBDA r : Proj(r, CustCols)), LAMBDA r : customer_step(m, r))

\* What a malformed money cell raises: to_decimal of main.py turns Decimal's
\* InvalidOperation into ValueError, the DAG's inline Decimal(str(x)) lets it
\* through.
DecimalError(program) == IF program = "main" THEN "ValueError" ELSE Malformed

\* 3.4 Products.  cost_price stands for both money columns.
product_step(program, m, r) ==
    IF isna(r.product_id) THEN Skip
    ELSE IF IntOf(r.product_id) = <<>> THEN Raise("ValueError")
    ELSE IF to_decimal(r.cost_price) = Malformed THEN Raise(DecimalError(program))
    ELSE Row([product_id  |-> IntOf(r.product_id)[1],
              category_id |-> Lookup(m["category"], r.category),
              brand_id    |-> Lookup(m["brand"], r.brand),
              color_id    |-> Lookup(m["color"], r.color),
              size_id     |-> Lookup(m["size"], r.size),
              cost_price  |-> to_decimal(r.cost_price)])

build_prod_rows(program, frame, m) ==
    Loop(KeepFirst(frame, LAMBDA r : Proj(r, ProdCols)),
         LAMBDA r : product_step(program, m, r))

\* The sale loop skipping a sale without campaign id instead of raising.
sale_step_skip(cmap, r) ==
    IF isna(r.sale_id) \/ isna(r.customer_id) THEN Skip
    ELSE IF Get(cmap, <<Str(r.channel), Str(r.channel_campaigns)>>) = None THEN Skip
    ELSE IF IntOf(r.sale_id) = <<>> \/ IntOf(r.customer_id) = <<>>
            \/ to_float(r.total_amount) = Malformed
         THEN Raise("ValueError")
    ELSE Row([sale_id      |-> IntOf(r.sale_id)[1],
              sale_date    |-> r.sale_date,
              total_amount |-> to_float(r.total_amount),
              customer_id  |-> IntOf(r.customer_id)[1],
              campaign_id  |-> cmap[<<Str(r.channel), Str(r.channel_campaigns)>>]])

\* 3.5 fact_sale: the first row of each sale_id; a sale without campaign id
\* raises.
sale_step(cmap, r) ==
    IF isna(r.sale_id) \/ isna(r.customer_id) THEN Skip
    ELSE IF Get(cmap, <<Str(r.channel), Str(r.channel_campaigns)>>) = None
         THEN Raise("MissingCampaign")
    ELSE IF IntOf(r.sale_id) = <<>> \/ IntOf(r.customer_id) = <<>>
            \/ to_float(r.total_amount) = Malformed
         THEN Raise("ValueError")
    ELSE Row([sale_id      |-> IntOf(r.sale_id)[1],
              sale_date    |-> r.sale_date,
              total_amount |-> to_float(r.total_amount),
              customer_id  |-> IntOf(r.customer_id)[1],
              campaign_id  |-> cmap[<<Str(r.channel), Str(r.channel_campaigns)>>]])

build_sale_rows(frame, cmap) ==
    Loop(KeepFirst(frame, LAMBDA r : r.sale_id), LAMBDA r : sale_step(cmap, r))

\* 3.6 fact_sale_item: the first row of each item_id.
item_step(r) ==
    IF isna(r.item_id) \/ isna(r.sale_id) \/ isna(r.product_id) THEN Skip
    ELSE IF IntOf(r.item_id) = <<>> \/ IntOf(r.sale_id) = <<>>
            \/ IntOf(r.product_id) = <<>> \/ IntOf(r.quantity) = <<>>
         THEN Raise("ValueError")
    ELSE Row([item_id          |-> IntOf(r.item_id)[1],
              sale_id          |-> IntOf(r.sale_id)[1],
              product_id       |-> IntOf(r.product_id)[1],
              quantity         |-> IntOf(r.quantity)[1],
              discount_percent |-> r.discount_percent_dec])

build_item_rows(frame) ==
    Loop(KeepFirst(frame, LAMBDA r : r.item_id), LAMBDA r : item_step(r))
\* ------------------------------------------------------------------ the phases of a run

\* The order of the six upsert_simple_dim calls (3.1).
DimOrder == <<"channel", "category", "brand", "color", "size", "country">>

Column(frame, c) == [i \in DOMAIN frame |-> frame[i][c]]

\* The frame has the columns cols; df[c] and df[[...]] raise KeyError for a
\* column it does not have.
Has(frame, cols) == \A i \in DOMAIN frame : cols \subseteq DOMAIN frame[i]

SaleCols == {"sale_id", "sale_date", "total_amount", "customer_id", "channel",
             "channel_campaigns"}
ItemCols == {"item_id", "sale_id", "product_id", "quantity", "discount_percent_dec"}

\* 3.1 and 3.2 with the campaigns resolved first, before there is a channel
\* map: no pair has a channel id.
resolve_dimensions_campaign_first(program, w, frame) ==
    LET r == [d \in Dims |->
                IF Has(frame, {d})
                THEN upsert_simple_dim(program, w.dim[d], Column(frame, d))
                ELSE [err |-> "KeyError", tbl |-> w.dim[d], map |-> <<>>]]
        bad == {i \in DOMAIN DimOrder : r[DimOrder[i]].err # OK}
        pairs == [i \in DOMAIN frame |->
                    <<Str(frame[i].channel), Str(frame[i].channel_campaigns)>>]
        c == IF Has(frame, {"channel_campaigns"})
             THEN upsert_dim_campaign(w.campaign, <<>>, pairs)
             ELSE [err |-> "KeyError", tbl |-> w.campaign, map |-> <<>>]
    IN  IF bad # {}
        THEN [err |-> r[DimOrder[Kth(bad, 1)]].err, work |-> w,
              maps |-> [d \in Dims |-> <<>>], campaign_map |-> <<>>]
        ELSE [err |-> c.err,
              work |-> [w EXCEPT !.dim = [d \in Dims |-> r[d].tbl], !.campaign = c.tbl],
              maps |-> [d \in Dims |-> r[d].map],
              campaign_map |-> c.map]

\* 3.1 and 3.2: the six simple dimensions, then the campaigns with the
\* channel map.  The first statement that raises ends the phase.
resolve_dimensions(program, w, frame) ==
    LET r == [d \in Dims |->
                IF Has(frame, {d})
                THEN upsert_simple_dim(program, w.dim[d], Column(frame, d))
                ELSE [err |-> "KeyError", tbl |-> w.dim[d], map |-> <<>>]]
        bad == {i \in DOMAIN DimOrder : r[DimOrder[i]].err # OK}
        pairs == [i \in DOMAIN frame |->
                    <<Str(frame[i].channel), Str(frame[i].channel_campaigns)>>]
        c == IF Has(frame, {"channel_campaigns"})
             THEN upsert_dim_campaign(w.campaign, r["channel"].map, pairs)
             ELSE [err |-> "KeyError", tbl |-> w.campaign, map |-> <<>>]
    IN  IF bad # {}
        THEN [err |-> r[DimOrder[Kth(bad, 1)]].err, work |-> w,
              maps |-> [d \in Dims |-> <<>>], campaign_map |-> <<>>]
        ELSE [err |-> c.err,
              work |-> [w EXCEPT !.dim = [d \in Dims |-> r[d].tbl], !.campaign = c.tbl],
              maps |-> [d \in Dims |-> r[d].map],
              campaign_map |-> c.map]

NoStaged == [cust |-> <<>>, prod |-> <<>>, sale |-> <<>>, item |-> <<>>]

\* x, then f of it: a statement after another (x is evaluated once).
Then(x, f(_)) == CHOOSE y \in {f(v) : v \in {x}} : TRUE

\* The phase ended by the exception e: nothing of it is kept.
FactsFailed(w, e) == [err |-> e, work |-> w, staged |-> NoStaged]

\* 3.3 to 3.6: build and upsert customers, products, sales, sale items, in
\* that order.  The first loop or statement that raises ends the phase.
build_facts(program, w, frame, m, cmap) ==
    IF ~Has(frame, CustCols) THEN FactsFailed(w, "KeyError") ELSE
    Then(build_cust_rows(frame, m), LAMBDA c :
      IF c.err # OK THEN FactsFailed(w, c.err) ELSE
    Then(upsert_dim_customer(w.customer, c.rows), LAMBDA uc :
      IF uc.err # OK THEN FactsFailed(w, uc.err) ELSE
      IF ~Has(frame, ProdCols) THEN FactsFailed(w, "KeyError") ELSE
    Then(build_prod_rows(program, frame, m), LAMBDA p :
      IF p.err # OK THEN FactsFailed(w, p.err) ELSE
    Then(upsert_dim_product(w.product, p.rows), LAMBDA up :
      IF up.err # OK THEN FactsFailed(w, up.err) ELSE
      IF ~Has(frame, SaleCols) THEN FactsFailed(w, "KeyError") ELSE
    Then(build_sale_rows(frame, cmap), LAMBDA sl :
      IF sl.err # OK THEN FactsFailed(w, sl.err) ELSE
    Then(upsert_fact_sale([w EXCEPT !.customer = uc.tbl, !.product = up.tbl], sl.rows),
         LAMBDA us :
      IF us.err # OK THEN FactsFailed(w, us.err) ELSE
      IF ~Has(frame, ItemCols) THEN FactsFailed(w, "KeyError") ELSE
    Then(build_item_rows(frame), LAMBDA it :
      IF it.err # OK THEN FactsFailed(w, it.err) ELSE
    Then(upsert_fact_sale_item([w EXCEPT !.sale = us.tbl, !.product = up.tbl], it.rows),
         LAMBDA ui :
      IF ui.err # OK THEN FactsFailed(w, ui.err) ELSE
      [err |-> OK,
       work |-> [w EXCEPT !.customer = uc.tbl, !.product = up.tbl,
                          !.sale = us.tbl, !.item = ui.tbl],
       staged |-> [cust |-> c.rows, prod |-> p.rows,
                   sale |-> sl.rows, item |-> it.rows]]))))))))

\* ------------------------------------------------------------------ a run

Programs == {"main", "dag"}

\* The run_date argument: two business dates, and two texts that are no
\* YYYYMMDD date.
RunDates == {"20250616", "20250617", "2025-06-16", "2025616"}

Terminal == {"COMMITTED", "ROLLED_BACK", "NO_DATA", "FAILED"}

NoIo == [read |-> FALSE, connected |-> FALSE, closed |-> FALSE,
         commits |-> 0, rollbacks |-> 0]

\* raised: the exception that left the invocation ("" when it returned);
\* cause: the exception it was raised from (the same one when re-raised);
\* value: what it returned (<<>> is None); log: its last log line.
NoResult == [raised |-> "", cause |-> "", value |-> <<>>, log |-> ""]

\* The invocation ends with exception e, raised as class c.
Failure(c, e, log) == [raised |-> c, cause |-> e, value |-> <<>>, log |-> log]

\* The connection left in autocommit mode.
autocommit_on == TRUE

\* conn.autocommit = False: a statement's writes stay in the transaction.
autocommit == FALSE

\* The committed tables after a statement left the transaction's tables as w.
Visible(w) == IF autocommit THEN w ELSE db

NoMaps == [d \in Dims |-> <<>>]

\* No previous invocation, or one that did not commit.
NoLast == [impl |-> "none", run_dt |-> NaT]

\* What the programs raise themselves: main.py raises the built-in class,
\* the DAG AirflowFailException.
Raised(program, e) == IF program = "dag" THEN "AirflowFailException" ELSE e

\* The frame with its dates parsed, but not filtered.
FilterNothing(rows, dt) ==
    [i \in DOMAIN rows |-> [rows[i] EXCEPT !.sale_date = to_datetime(rows[i].sale_date)]]

\* The frame filtered to the rows of the run date and of the later date.
FilterSince(rows, dt) ==
    LET parsed == [i \in DOMAIN rows |->
                     [rows[i] EXCEPT !.sale_date = to_datetime(rows[i].sale_date)]]
    IN  SelectSeq(parsed, LAMBDA r : r.sale_date = dt \/ (dt = D1 /\ r.sale_date = D2))

\* df[df["sale_date"] == run_dt] after df["sale_date"] = to_datetime(...).dt.date
Filter(rows, dt) ==
    LET parsed == [i \in DOMAIN rows |->
                     [rows[i] EXCEPT !.sale_date = to_datetime(rows[i].sale_date)]]
    IN  SelectSeq(parsed, LAMBDA r : r.sale_date = dt)

\* df["discount_percent_dec"] = df["discount_percent"].apply(percent_str_to_decimal)
WithPercent(frame) ==
    [i \in DOMAIN frame |->
       [c \in DOMAIN frame[i] \cup {"discount_percent_dec"} |->
          IF c = "discount_percent_dec"
          THEN percent_str_to_decimal(frame[i].discount_percent)[1]
          ELSE frame[i][c]]]

\* main() up to "3) Connect", ingest() up to "Write to Postgres": parse the
\* date, read the object, check the column, filter, clean the percentages.
\* fault: the object-storage read fails.
Invoke(program, run_date, fault) ==
    /\ pc = "idle"
    /\ impl' = program
    /\ dbBefore' = db
    /\ UNCHANGED <<extract, db, work, maps, campaign_map, staged, last>>
    /\ LET dt == parse_yyyymmdd(run_date)
           frame == Filter(extract.rows, dt)
       IN  IF dt = InvalidDate
           THEN /\ pc' = "FAILED"
                /\ run_dt' = NaT
                /\ df' = <<>>
                /\ io' = NoIo
                /\ result' = Failure(Raised(program, "ValueError"), "ValueError", "")
           ELSE IF fault
           THEN /\ pc' = "FAILED"
                /\ run_dt' = dt
                /\ df' = <<>>
                /\ io' = [NoIo EXCEPT !.read = TRUE]
                /\ result' = Failure(Raised(program, "S3Error"), "S3Error", "")
           ELSE IF ~extract.has_sale_date
           THEN /\ pc' = "FAILED"
                /\ run_dt' = dt
                /\ df' = <<>>
                /\ io' = [NoIo EXCEPT !.read = TRUE]
                /\ result' = Failure(Raised(program, "RuntimeError"), "RuntimeError", "")
           ELSE IF frame = <<>>
           THEN /\ pc' = "NO_DATA"
                /\ run_dt' = dt
                /\ df' = <<>>
                /\ io' = [NoIo EXCEPT !.read = TRUE]
                /\ result' = [NoResult EXCEPT
                                !.value = IF program = "dag" THEN <<"NO_DATA">> ELSE <<>>,
                                !.log = "No rows"]
           ELSE IF ~Has(frame, {"discount_percent"})
           THEN /\ pc' = "FAILED"
                /\ run_dt' = dt
                /\ df' = frame
                /\ io' = [NoIo EXCEPT !.read = TRUE]
                /\ result' = Failure("KeyError", "KeyError",
                                      IF program = "main" THEN "Rows to ingest" ELSE "")
           ELSE IF \E i \in DOMAIN frame :
                     percent_str_to_decimal(frame[i].discount_percent) = <<>>
           THEN /\ pc' = "FAILED"
                /\ run_dt' = dt
                /\ df' = frame
                /\ io' = [NoIo EXCEPT !.read = TRUE]
                /\ result' = Failure("InvalidOperation", "InvalidOperation",
                                      IF program = "main" THEN "Rows to ingest" ELSE "")
           ELSE /\ pc' = "FILTERED"
                /\ run_dt' = dt
                /\ df' = WithPercent(frame)
                /\ io' = [NoIo EXCEPT !.read = TRUE]
                /\ result' = [NoResult EXCEPT
                                !.log = IF program = "main" THEN "Rows to ingest" ELSE ""]

\* The except branch without the finally: the connection stays open.
RolledBackOpen(e) ==
    /\ pc' = "ROLLED_BACK"
    /\ work' = db
    /\ io' = [io EXCEPT !.connected = TRUE, !.rollbacks = @ + 1]
    /\ result' = Failure(Raised(impl, e), e, "Ingestion failed")

\* except Exception: conn.rollback(); log; raise.  finally: conn.close().
\* main.py re-raises the exception, the DAG raises AirflowFailException from it.
RolledBack(e) ==
    /\ pc' = "ROLLED_BACK"
    /\ work' = db
    /\ io' = [io EXCEPT !.connected = TRUE, !.rollbacks = @ + 1, !.closed = TRUE]
    /\ result' = Failure(Raised(impl, e), e, "Ingestion failed")

\* pg_connect() / get_conn(), autocommit off, then 3.1 and 3.2 inside the try.
\* fault "connect": the connection cannot be made (raised before the try);
\* fault "statement": the database fails a statement of the phase.
ResolveDimensions(fault) ==
    /\ pc = "FILTERED"
    /\ UNCHANGED <<extract, impl, run_dt, df, staged, dbBefore, last>>
    /\ \E r \in {resolve_dimensions(impl, db, df)} :
           IF fault = "connect"
           THEN /\ pc' = "FAILED"
                /\ result' = Failure("OperationalError", "OperationalError", result.log)
                /\ UNCHANGED <<db, work, io, maps, campaign_map>>
           ELSE IF fault = "statement" \/ r.err # OK
           THEN /\ RolledBack(IF r.err # OK THEN r.err ELSE "OperationalError")
                /\ UNCHANGED <<db, maps, campaign_map>>
           ELSE /\ pc' = "DIMENSIONS_RESOLVED"
                /\ work' = r.work
                /\ db' = Visible(r.work)
                /\ maps' = r.maps
                /\ campaign_map' = r.campaign_map
                /\ io' = [io EXCEPT !.connected = TRUE]
                /\ UNCHANGED result

\* 3.3 to 3.6 inside the try.
BuildFacts(fault) ==
    /\ pc = "DIMENSIONS_RESOLVED"
    /\ UNCHANGED <<extract, impl, run_dt, df, maps, campaign_map, dbBefore, last>>
    /\ \E r \in {build_facts(impl, work, df, maps, campaign_map)} :
           IF fault \/ r.err # OK
           THEN /\ RolledBack(IF r.err # OK THEN r.err ELSE "OperationalError")
                /\ UNCHANGED <<db, staged>>
           ELSE /\ pc' = "FACTS_BUILT"
                /\ work' = r.work
                /\ db' = Visible(r.work)
                /\ staged' = r.staged
                /\ UNCHANGED <<io, result>>

\* The commit placed after the try block: its failure is not rolled back.
CommitOutsideTry(fault) ==
    /\ pc = "FACTS_BUILT"
    /\ UNCHANGED <<extract, impl, run_dt, df, maps, campaign_map, staged, dbBefore, last>>
    /\ IF fault
       THEN /\ pc' = "FAILED"
            /\ result' = Failure("OperationalError", "OperationalError", result.log)
            /\ UNCHANGED <<db, work, io>>
       ELSE /\ pc' = "COMMITTED"
            /\ db' = work
            /\ work' = work
            /\ io' = [io EXCEPT !.commits = @ + 1, !.closed = TRUE]
            /\ result' = [NoResult EXCEPT
                            !.value = IF impl = "dag" THEN <<"OK", Len(df)>> ELSE <<>>,
                            !.log = "committed"]

\* conn.commit(), still inside the try; then the success log and, in the
\* DAG, return "OK:<len(df)>".  main() returns None.
Commit(fault) ==
    /\ pc = "FACTS_BUILT"
    /\ UNCHANGED <<extract, impl, run_dt, df, maps, campaign_map, staged, dbBefore, last>>
    /\ IF fault
       THEN /\ RolledBack("OperationalError")
            /\ UNCHANGED db
       ELSE /\ pc' = "COMMITTED"
            /\ db' = work
            /\ work' = work
            /\ io' = [io EXCEPT !.commits = @ + 1, !.closed = TRUE]
            /\ result' = [NoResult EXCEPT
                            !.value = IF impl = "dag" THEN <<"OK", Len(df)>> ELSE <<>>,
                            !.log = "committed"]

\* The process (or task) ends; the next invocation starts from nothing but
\* the database.
Exit ==
    /\ pc \in Terminal
    /\ pc' = "idle"
    /\ last' = IF pc = "COMMITTED" THEN [impl |-> impl, run_dt |-> run_dt] ELSE NoLast
    /\ work' = db
    /\ df' = <<>>
    /\ maps' = NoMaps
    /\ campaign_map' = <<>>
    /\ staged' = NoStaged
    /\ io' = NoIo
    /\ result' = NoResult
    /\ impl' = "none"
    /\ run_dt' = NaT
    /\ dbBefore' = db
    /\ UNCHANGED <<extract, db>>

Next ==
    \/ \E program \in Programs, run_date \in RunDates, fault \in BOOLEAN :
          Invoke(program, run_date, fault)
    \/ \E fault \in {"none", "connect", "statement"} : ResolveDimensions(fault)
    \/ \E fault \in BOOLEAN : BuildFacts(fault)
    \/ \E fault \in BOOLEAN : Commit(fault)
    \/ Exit
\* ------------------------------------------------------------------ the extract

\* A well-formed row of the extract for the first business date.
Base ==
    [sale_date |-> "2025-06-16", channel |-> "Online", channel_campaigns |-> "Spring",
     country |-> "FR", category |-> "Shoes", brand |-> "Acme", color |-> "Red",
     size |-> "M", customer_id |-> "1", first_name |-> "Ann", product_id |-> "1",
     cost_price |-> "10", sale_id |-> "1", total_amount |-> "10", item_id |-> "1",
     quantity |-> "1", discount_percent |-> "10%"]

\* A second sale, of the second business date, to the same customer under
\* another name.
Second ==
    [Base EXCEPT !.sale_date = "2025-06-17", !.sale_id = "2", !.item_id = "2",
                 !.first_name = "Bob", !.total_amount = "12.5"]

\* The rows the extract is made of.
Rows ==
    { Base, Second,
      [Base EXCEPT !.sale_date = "16/06"],
      [Base EXCEPT !.channel = " "],
      [Base EXCEPT !.country = NaN],
      [Base EXCEPT !.cost_price = "abc"],
      [Base EXCEPT !.discount_percent = "abc%"],
      [Base EXCEPT !.item_id = "2", !.product_id = "2", !.category = "Hats"],
      [Second EXCEPT !.first_name = NaN, !.customer_id = "2"],
      [Second EXCEPT !.channel = "Retail", !.channel_campaigns = NaN] }

SeqsUpTo(S, n) == UNION {[1..k -> S] : k \in 0..n}

InitRun ==
    /\ db = EmptyDb
    /\ work = EmptyDb
    /\ pc = "idle"
    /\ impl = "none"
    /\ run_dt = NaT
    /\ df = <<>>
    /\ maps = NoMaps
    /\ campaign_map = <<>>
    /\ staged = NoStaged
    /\ io = NoIo
    /\ result = NoResult
    /\ dbBefore = EmptyDb
    /\ last = NoLast

Init ==
    /\ extract \in {[has_sale_date |-> h, rows |-> rs] :
                      h \in BOOLEAN, rs \in SeqsUpTo(Rows, MaxRows)}
    /\ InitRun

Spec == Init /\ [][Next]_vars

\* A started invocation runs on: the program is sequential and nothing in it
\* waits.  Whether another invocation is started is up to the caller.
RunStep ==
    \/ \E fault \in {"none", "connect", "statement"} : ResolveDimensions(fault)
    \/ \E fault \in BOOLEAN : BuildFacts(fault)
    \/ \E fault \in BOOLEAN : Commit(fault)

\* The extracts of the fair specification: a good row, a row whose channel
\* is blank and one whose discount is no number.
FairRows == {Base, [Base EXCEPT !.channel = " "],
             [Base EXCEPT !.discount_percent = "abc%"]}

FairInit ==
    /\ extract \in {[has_sale_date |-> h, rows |-> rs] :
                      h \in BOOLEAN, rs \in SeqsUpTo(FairRows, MaxRows)}
    /\ InitRun

FairSpec == FairInit /\ [][Next]_vars /\ WF_vars(RunStep)
\* The extracts of the dimension specification: rows that differ in the
\* texts the dimensions are resolved from (a new value next to a known one,
\* a padded value, a missing cell, a blank cell), over both business dates.
DimRows ==
    { Base, Second,
      [Second EXCEPT !.channel = "Retail", !.channel_campaigns = "Summer"],
      [Base EXCEPT !.channel = " Online"],
      [Base EXCEPT !.country = NaN],
      [Second EXCEPT !.country = " FR"],
      [Second EXCEPT !.channel = " "],
      [Second EXCEPT !.channel_campaigns = NaN] }

DimInit ==
    /\ extract \in {[has_sale_date |-> TRUE, rows |-> rs] : rs \in SeqsUpTo(DimRows, MaxRows)}
    /\ InitRun

DimSpec == DimInit /\ [][Next]_vars

\* The extracts of the key specification: rows that share or change the
\* external ids (the same customer, product or sale on another date or with
\* other attributes, a second line of a sale, a missing id).
KeyRows ==
    { Base, Second,
      [Second EXCEPT !.first_name = NaN, !.item_id = NaN],
      [Second EXCEPT !.sale_id = "1", !.product_id = "2", !.cost_price = "12.5"],
      [Second EXCEPT !.customer_id = "2"],
      [Base EXCEPT !.item_id = "2", !.channel = " "],
      [Base EXCEPT !.item_id = "2", !.product_id = "2"],
      [Base EXCEPT !.customer_id = NaN, !.item_id = NaN, !.channel = " "],
      [Base EXCEPT !.customer_id = NaN],
      [Second EXCEPT !.item_id = NaN, !.channel = " "] }

KeyInit ==
    /\ extract \in {[has_sale_date |-> TRUE, rows |-> rs] : rs \in SeqsUpTo(KeyRows, MaxRows)}
    /\ InitRun

KeySpec == KeyInit /\ [][Next]_vars
\* The extracts of the percentage specification: sale items whose discount
\* is written with a comma, out of range, padded, bare, blank or missing.
PctRows ==
    {[Base EXCEPT !.discount_percent = x] :
        x \in {"12,5%", "150%", "-5%", "%", " 10% ", "10", " ", NaN}}
    \cup {[Base EXCEPT !.item_id = "2", !.discount_percent = x] : x \in {"150%", "-5%"}}

PctInit ==
    /\ extract \in {[has_sale_date |-> TRUE, rows |-> rs] : rs \in SeqsUpTo(PctRows, MaxRows)}
    /\ InitRun

PctSpec == PctInit /\ [][Next]_vars

\* The row without its column c.
Without(r, c) == [k \in DOMAIN r \ {c} |-> r[k]]

\* The columns an extract of the column specification may lack: one read
\* before the connection is made, one read by the first statement of the
\* transaction, one by the customer loop and one by the last loop.
Droppable == {"discount_percent", "channel", "first_name", "quantity"}

\* The extracts of the column specification: every column, or all but one;
\* the date column may be absent too.
ColInit ==
    /\ extract \in
         {[has_sale_date |-> h, rows |-> rs] :
             h \in BOOLEAN,
             rs \in SeqsUpTo({Base, Second}, MaxRows) \cup
                    UNION {SeqsUpTo({Without(Base, c), Without(Second, c)}, MaxRows) :
                             c \in Droppable}}
    /\ InitRun

ColSpec == ColInit /\ [][Next]_vars

\* ------------------------------------------------------------------ claims

\* The invocation ended because the outside world failed (object storage,
\* the connection, the database), not because of the data.
OutsideFault == result.cause \in {"S3Error", "OperationalError"}

\* C1.  Atomicity of a run: until the commit the committed tables are those
\* of before the run, and they are so again after any exception; after the
\* commit they hold all of the run's writes: every resolved dimension and
\* campaign id and every customer, product, sale and sale-item tuple.
C1_Atomicity ==
    /\ pc # "COMMITTED" => db = dbBefore
    /\ pc = "COMMITTED" =>
         /\ db = work
         /\ \A d \in Dims : \A n \in DOMAIN maps[d] :
              [id |-> maps[d][n], name |-> n] \in db.dim[d]
         /\ \A k \in DOMAIN campaign_map : \E c \in db.campaign : c.id = campaign_map[k]
         /\ Range(staged.cust) \subseteq db.customer
         /\ Range(staged.prod) \subseteq db.product
         /\ Range(staged.sale) \subseteq db.sale
         /\ Range(staged.item) \subseteq db.item

\* A run that wrote dimensions, customers, products, sales and items was
\* rolled back by a failing commit.
C1_Witness ==
    /\ pc = "ROLLED_BACK"
    /\ staged.item # <<>>
    /\ db = dbBefore
    /\ result.cause = "OperationalError"

\* C2.  Idempotence: when the previous invocation committed the same
\* program's load of the same business date (so of the same filtered rows),
\* this one commits too unless the outside world fails, and leaves every
\* table as it found it.
C2_Idempotent ==
    (last = [impl |-> impl, run_dt |-> run_dt] /\ pc \in Terminal) =>
        /\ pc = "COMMITTED" \/ OutsideFault
        /\ pc = "COMMITTED" => db = dbBefore

\* A second load of a date committed over a database that holds sales.
C2_Witness ==
    /\ last = [impl |-> impl, run_dt |-> run_dt]
    /\ pc = "COMMITTED"
    /\ db.sale # {}
    /\ db.item # {}

\* C3.  Dimension id stability: every simple-dimension and campaign row of
\* before the run is in the table unchanged, in the transaction and after
\* it; no table holds two rows of one natural key or of one id; and a
\* resolved value that was in the table before the run is mapped to the id
\* it had.
C3_IdStability ==
    /\ \A d \in Dims :
         /\ dbBefore.dim[d] \subseteq work.dim[d]
         /\ dbBefore.dim[d] \subseteq db.dim[d]
         /\ \A r1, r2 \in work.dim[d] : (r1.name = r2.name \/ r1.id = r2.id) => r1 = r2
         /\ \A n \in DOMAIN maps[d] : \A r \in dbBefore.dim[d] :
              r.name = n => maps[d][n] = r.id
    /\ dbBefore.campaign \subseteq work.campaign
    /\ dbBefore.campaign \subseteq db.campaign
    /\ \A r1, r2 \in work.campaign :
         (r1.id = r2.id \/ (r1.channel_id = r2.channel_id /\ r1.name = r2.name)) => r1 = r2
    /\ \A k \in DOMAIN campaign_map : \A r \in dbBefore.campaign :
         (r.name = k[2] /\ Get(maps["channel"], k[1]) = Some(r.channel_id)) =>
             campaign_map[k] = r.id

\* A run resolved a channel that is new to a table holding another one, and
\* a category and a campaign that earlier runs had inserted.
C3_Witness ==
    /\ pc = "DIMENSIONS_RESOLVED"
    /\ dbBefore.dim["channel"] # {}
    /\ work.dim["channel"] # dbBefore.dim["channel"]
    /\ \E n \in DOMAIN maps["category"] :
         [id |-> maps["category"][n], name |-> n] \in dbBefore.dim["category"]
    /\ \E k \in DOMAIN campaign_map : \E r \in dbBefore.campaign : campaign_map[k] = r.id

\* The row of the frame is the first of its sale id (the one
\* drop_duplicates(subset=["sale_id"]) keeps).
FirstOfSale(i) == \A j \in 1..(i - 1) : df[j].sale_id # df[i].sale_id

\* The row has its sale and customer id, and its (channel, campaign) pair has
\* no entry in the campaign map.
Unmapped(r) ==
    /\ ~isna(r.sale_id) /\ ~isna(r.customer_id)
    /\ Get(campaign_map, <<Str(r.channel), Str(r.channel_campaigns)>>) = None

\* C4.  Fatal campaign path, for the first row of each sale id: a run whose
\* facts were built has no such row without campaign map entry, has a sale
\* tuple with the mapped campaign id for every first row that has its two
\* ids, and every sale tuple's campaign id is a campaign row's; and the run
\* that raised for a missing campaign was rolled back, the tables being
\* those of before the run.
C4_FatalCampaign ==
    /\ pc \in {"FACTS_BUILT", "COMMITTED"} =>
         /\ \A i \in DOMAIN df : FirstOfSale(i) => ~Unmapped(df[i])
         /\ \A i \in DOMAIN df :
              (FirstOfSale(i) /\ ~isna(df[i].sale_id) /\ ~isna(df[i].customer_id)) =>
                 \E k \in DOMAIN staged.sale :
                    /\ Some(staged.sale[k].sale_id) = IntOf(df[i].sale_id)
                    /\ staged.sale[k].campaign_id =
                         campaign_map[<<Str(df[i].channel), Str(df[i].channel_campaigns)>>]
         /\ \A k \in DOMAIN staged.sale :
              \E c \in work.campaign : c.id = staged.sale[k].campaign_id
    /\ result.cause = "MissingCampaign" =>
         /\ pc = "ROLLED_BACK"
         /\ result.raised # ""
         /\ io.rollbacks = 1 /\ io.commits = 0
         /\ db = dbBefore /\ work = dbBefore

\* A run that had resolved a channel raised for a sale whose pair has no
\* campaign id, and was rolled back.
C4_Witness ==
    /\ pc = "ROLLED_BACK"
    /\ result.cause = "MissingCampaign"
    /\ maps["channel"] # <<>>
    /\ \E i \in DOMAIN df : FirstOfSale(i) /\ Unmapped(df[i])
    /\ db = dbBefore

\* C4 as stated: no run builds its facts or commits with a row, not skipped
\* for a null key, whose pair has no campaign map entry.
C4_AsStated ==
    pc \in {"FACTS_BUILT", "COMMITTED"} => \A i \in DOMAIN df : ~Unmapped(df[i])

\* C5.  No-data path: an invocation ends in NO_DATA exactly when no row of
\* the extract parses to the business date; it then has opened no
\* connection, committed and rolled back nothing, changed no table, raised
\* nothing, and gave the no-data signal (the DAG returns "NO_DATA", main.py
\* logs that there are no rows and returns).
C5_NoData ==
    /\ pc = "NO_DATA" =>
         /\ \A i \in DOMAIN extract.rows : to_datetime(extract.rows[i].sale_date) # run_dt
         /\ ~io.connected /\ io.commits = 0 /\ io.rollbacks = 0
         /\ db = dbBefore /\ work = dbBefore
         /\ result.raised = ""
         /\ result.log = "No rows"
         /\ impl = "dag" => result.value = <<"NO_DATA">>
    /\ pc \in {"FILTERED", "DIMENSIONS_RESOLVED", "FACTS_BUILT", "COMMITTED", "ROLLED_BACK"} =>
         \E i \in DOMAIN extract.rows : to_datetime(extract.rows[i].sale_date) = run_dt

\* The extract holds a row whose date does not parse and rows of another
\* date, and the run ended with no data.
C5_Witness ==
    /\ pc = "NO_DATA"
    /\ \E i \in DOMAIN extract.rows : to_datetime(extract.rows[i].sale_date) = NaT
    /\ \E i \in DOMAIN extract.rows : to_datetime(extract.rows[i].sale_date) \notin {NaT, run_dt}
\* C6.  The state machine of a run, with the fourth end it has in the code:
\* from the filter step a run is FILTERED, has NO_DATA or FAILED;
\* FILTERED -> DIMENSIONS_RESOLVED -> FACTS_BUILT -> COMMITTED, each of the
\* three steps going to ROLLED_BACK on an exception raised inside the
\* transaction, and FILTERED going to FAILED when the connection cannot be
\* opened; the four ends are left only by the end of the invocation, which
\* changes no table; and every filtered run reaches one of the four ends.
C6_StateMachine ==
    /\ [][ /\ pc = "idle" => pc' \in {"FILTERED", "NO_DATA", "FAILED"}
           /\ pc = "FILTERED" => pc' \in {"DIMENSIONS_RESOLVED", "ROLLED_BACK", "FAILED"}
           /\ pc = "DIMENSIONS_RESOLVED" => pc' \in {"FACTS_BUILT", "ROLLED_BACK"}
           /\ pc = "FACTS_BUILT" => pc' \in {"COMMITTED", "ROLLED_BACK"}
           /\ pc \in Terminal => pc' = "idle" /\ db' = db ]_vars
    /\ (pc = "FILTERED") ~> (pc \in Terminal)

\* A run went through the three steps and committed.
C6_Witness == pc = "COMMITTED" /\ io.commits = 1 /\ staged.sale # <<>>

\* C6 as stated: the filter step leads to FILTERED or NO_DATA, the three
\* steps lead on or to ROLLED_BACK, and every filtered run reaches
\* COMMITTED, ROLLED_BACK or NO_DATA.
C6_AsStated ==
    /\ [][ /\ pc = "idle" => pc' \in {"FILTERED", "NO_DATA"}
           /\ pc = "FILTERED" => pc' \in {"DIMENSIONS_RESOLVED", "ROLLED_BACK"}
           /\ pc = "DIMENSIONS_RESOLVED" => pc' \in {"FACTS_BUILT", "ROLLED_BACK"}
           /\ pc = "FACTS_BUILT" => pc' \in {"COMMITTED", "ROLLED_BACK"} ]_vars
    /\ (pc = "FILTERED") ~> (pc \in {"COMMITTED", "ROLLED_BACK", "NO_DATA"})

\* C7.  The completion signal as stated: success returns the number of
\* filtered rows, and only after the commit; no data gives the no-data
\* signal; a failure raises, from the transactional phase only after the
\* rollback; a running invocation has signalled nothing.
C7_AsStated ==
    /\ pc = "COMMITTED" =>
         /\ result.raised = "" /\ io.commits = 1
         /\ result.value = <<"OK", Len(df)>>
    /\ pc = "NO_DATA" =>
         /\ result.raised = ""
         /\ result.value = <<"NO_DATA">> \/ result.log = "No rows"
    /\ pc \in {"ROLLED_BACK", "FAILED"} => result.raised # "" /\ io.commits = 0
    /\ pc = "ROLLED_BACK" => io.rollbacks = 1
    /\ pc \notin Terminal => result.raised = "" /\ result.value = <<>>

\* What upsert_overwrite leaves of the table old, given the tuples rows: the
\* tuples themselves under their keys, the other rows as they were.
Written(rows, key, old, new) ==
    /\ Range(rows) \subseteq new
    /\ \A r \in new : r[key] \in Keys(rows, key) => r \in Range(rows)
    /\ {r \in new : r[key] \notin Keys(rows, key)} = {r \in old : r[key] \notin Keys(rows, key)}
    /\ rows = <<>> => new = old

\* C8.  upsert_overwrite: when the four upserts of a run have returned, each
\* table holds the run's tuples under their keys, whatever the rows of these
\* keys held before, and every row of another key as before the run; an
\* empty list left its table as it was.
C8_UpsertOverwrite ==
    pc = "FACTS_BUILT" =>
        /\ Written(staged.cust, "customer_id", dbBefore.customer, work.customer)
        /\ Written(staged.prod, "product_id", dbBefore.product, work.product)
        /\ Written(staged.sale, "sale_id", dbBefore.sale, work.sale)
        /\ Written(staged.item, "item_id", dbBefore.item, work.item)

\* A run overwrote a customer's name with null, wrote a sale next to one of
\* an earlier run, which it left alone, and had no sale item to write.
C8_Witness ==
    /\ pc = "FACTS_BUILT"
    /\ \E c \in dbBefore.customer : \E i \in DOMAIN staged.cust :
         /\ staged.cust[i].customer_id = c.customer_id
         /\ c.first_name # None
         /\ staged.cust[i].first_name = None
    /\ \E x \in dbBefore.sale : x.sale_id \notin Keys(staged.sale, "sale_id") /\ x \in work.sale
    /\ staged.sale # <<>>
    /\ staged.item = <<>> /\ work.item = dbBefore.item /\ dbBefore.item # {}

\* The values of column d of the frame that are neither missing nor blank.
NonBlank(d) ==
    {df[i][d] : i \in {j \in DOMAIN df : ~isna(df[j][d]) /\ Strip(df[j][d]) # ""}}

\* C9.  The result of upsert_simple_dim as stated: the call returns, and the
\* keys of the mapping are the distinct non-blank values of the column as
\* the frame holds them, each mapped to the id of the table row of that
\* name.
C9_AsStated ==
    /\ result.cause \notin {"TypeError", "UndefinedFunction"}
    /\ pc = "DIMENSIONS_RESOLVED" =>
         \A d \in Dims :
            /\ DOMAIN maps[d] = NonBlank(d)
            /\ \A n \in DOMAIN maps[d] : [id |-> maps[d][n], name |-> n] \in work.dim[d]

\* A missing or blank natural key: null, the empty or a whitespace text, or
\* the text of the missing value.
Blank(n) == n \in {"", " ", "nan", NaN}

\* C10.  Blank values never become dimension rows, as stated: no
\* simple-dimension row, committed or in the transaction, has a blank
\* natural key, and no mapping has a blank key.
C10_AsStated ==
    \A d \in Dims :
       /\ \A r \in db.dim[d] \cup work.dim[d] : ~Blank(r.name)
       /\ \A n \in DOMAIN maps[d] : ~Blank(n)

\* The campaign rows the run inserted.
InsertedCampaigns == work.campaign \ dbBefore.campaign

\* The cell holds a text that is not blank.
Present(x) == ~isna(x) /\ Strip(x) # ""

\* C11.  Campaign candidate filtering as stated: every campaign row a run
\* inserted comes from a row of the frame whose channel and campaign are
\* both present and whose channel has an id in the channel map, which is the
\* row's channel_id; and no two inserted rows have the same channel and name.
C11_AsStated ==
    pc \in {"DIMENSIONS_RESOLVED", "FACTS_BUILT", "COMMITTED"} =>
        /\ \A c \in InsertedCampaigns : \E i \in DOMAIN df :
             /\ Present(df[i].channel) /\ Present(df[i].channel_campaigns)
             /\ c.name = df[i].channel_campaigns
             /\ Get(maps["channel"], df[i].channel) = Some(c.channel_id)
        /\ \A c1, c2 \in InsertedCampaigns :
             (c1.channel_id = c2.channel_id /\ c1.name = c2.name) => c1 = c2

\* C12.  The campaign dimension invariant: in the committed tables and in
\* those of the transaction no two campaign rows have the same channel_id
\* and name, and every campaign row's channel_id is the id of a channel row
\* of the same tables; the campaigns a run inserted have a channel_id the
\* run's channel map returned.
C12_CampaignInvariant ==
    /\ \A t \in {db, work} :
         /\ \A c1, c2 \in t.campaign :
              (c1.channel_id = c2.channel_id /\ c1.name = c2.name) => c1 = c2
         /\ \A c \in t.campaign : \E ch \in t.dim["channel"] : ch.id = c.channel_id
    /\ pc \in {"DIMENSIONS_RESOLVED", "FACTS_BUILT", "COMMITTED"} =>
         \A c \in InsertedCampaigns :
            c.channel_id \in {maps["channel"][n] : n \in DOMAIN maps["channel"]}

\* A run committed a campaign of a second channel next to the campaign an
\* earlier run had inserted.
C12_Witness ==
    /\ pc = "COMMITTED"
    /\ InsertedCampaigns # {}
    /\ dbBefore.campaign # {}
    /\ \E c1, c2 \in db.campaign : c1.channel_id # c2.channel_id

\* The external ids of a row.
IdCols == {"customer_id", "product_id", "sale_id", "item_id"}

\* Apart from ids that may be missing, the row is well formed: its texts are
\* present and its numbers are numbers.
GoodButForIds(r) ==
    /\ \A d \in Dims : Present(r[d])
    /\ Present(r.channel_campaigns)
    /\ \A k \in IdCols : isna(r[k]) \/ IntOf(r[k]) # <<>>
    /\ IntOf(r.quantity) # <<>>
    /\ to_decimal(r.cost_price) # Malformed
    /\ to_float(r.total_amount) # Malformed

\* No two rows of the frame give one customer or one product different
\* attributes.
NoKeyClash ==
    \A i, j \in DOMAIN df :
       /\ (~isna(df[i].customer_id) /\ df[i].customer_id = df[j].customer_id) =>
             Proj(df[i], CustCols) = Proj(df[j], CustCols)
       /\ (~isna(df[i].product_id) /\ df[i].product_id = df[j].product_id) =>
             Proj(df[i], ProdCols) = Proj(df[j], ProdCols)

\* C13.  Null required keys as stated: the tuples of a run come from rows
\* that have the tuple's id, and a run whose rows have no other defect than
\* missing ids is not rolled back for its data.
C13_AsStated ==
    /\ pc \in {"FACTS_BUILT", "COMMITTED"} =>
         /\ \A k \in DOMAIN staged.cust : \E i \in DOMAIN df :
              IntOf(df[i].customer_id) = Some(staged.cust[k].customer_id)
         /\ \A k \in DOMAIN staged.prod : \E i \in DOMAIN df :
              IntOf(df[i].product_id) = Some(staged.prod[k].product_id)
         /\ \A k \in DOMAIN staged.sale : \E i \in DOMAIN df :
              IntOf(df[i].sale_id) = Some(staged.sale[k].sale_id)
         /\ \A k \in DOMAIN staged.item : \E i \in DOMAIN df :
              IntOf(df[i].item_id) = Some(staged.item[k].item_id)
    /\ (pc = "ROLLED_BACK" /\ NoKeyClash /\ \A i \in DOMAIN df : GoodButForIds(df[i])) =>
         OutsideFault

\* The run-date arguments that are a date written YYYYMMDD.
ValidYYYYMMDD == {"20250616", "20250617"}

\* C14.  Malformed invocation date as stated: an invocation with an argument
\* that is no YYYYMMDD date fails at once with the input error, having read
\* nothing, connected to nothing and written nothing.
C14_AsStated ==
    [][\A program \in Programs, run_date \in RunDates \ ValidYYYYMMDD, fault \in BOOLEAN :
         Invoke(program, run_date, fault) =>
            /\ pc' = "FAILED"
            /\ result'.cause = "ValueError"
            /\ io' = NoIo
            /\ db' = db /\ work' = work]_vars

\* The columns of a full extract.
AllCols == DOMAIN Base

\* The extract lacks a column the load reads.
ColumnAbsent ==
    \/ ~extract.has_sale_date
    \/ \E i \in DOMAIN extract.rows : DOMAIN extract.rows[i] # AllCols

\* C15.  Missing required column as stated: an invocation that read an
\* extract lacking a column ends in failure, never commits and leaves the
\* tables as they were; when the date column is absent it fails without
\* having opened a connection.
C15_AsStated ==
    (ColumnAbsent /\ pc \in Terminal /\ io.read /\ ~OutsideFault) =>
        /\ pc \in {"FAILED", "ROLLED_BACK"}
        /\ result.raised # ""
        /\ io.commits = 0
        /\ db = dbBefore
        /\ ~extract.has_sale_date => pc = "FAILED" /\ ~io.connected

\* The number p a discount text stands for, in hundredths of a percent.
PctMeaning ==
    [x \in {"12,5%", "150%", "-5%", " 10% ", "10", "10%"} |->
        CASE x = "12,5%" -> 1250
          [] x = "150%"  -> 15000
          [] x = "-5%"   -> -500
          [] OTHER       -> 1000]

\* min(max(p / 100, 0), 1), in ten-thousandths.
Clamp(n) == IF n < 0 THEN 0 ELSE IF n > 10000 THEN 10000 ELSE n

\* C16.  Percentage parsing result: the parsed discount of every row of the
\* frame is the clamped number its text stands for, 0 for a missing or blank
\* text or a lone "%", and always within [0, 1]; so is the discount of every
\* sale item in the tables.
C16_PercentResult ==
    /\ \A i \in DOMAIN df : "discount_percent_dec" \in DOMAIN df[i] =>
         /\ df[i].discount_percent_dec \in 0..10000
         /\ df[i].discount_percent \in DOMAIN PctMeaning =>
              df[i].discount_percent_dec = Clamp(PctMeaning[df[i].discount_percent])
         /\ ~Present(df[i].discount_percent) \/ df[i].discount_percent = "%" =>
              df[i].discount_percent_dec = 0
    /\ \A t \in db.item \cup work.item : t.discount_percent \in 0..10000

\* A run committed an item whose discount "150%" was clamped to 1 and one
\* whose discount "-5%" was clamped to 0.
C16_Witness ==
    /\ pc = "COMMITTED"
    /\ \E i, j \in DOMAIN df :
         /\ df[i].discount_percent = "150%" /\ df[j].discount_percent = "-5%"
         /\ [item_id |-> 1, sale_id |-> 1, product_id |-> 1, quantity |-> 1,
             discount_percent |-> 0] \in db.item
         /\ [item_id |-> 2, sale_id |-> 1, product_id |-> 1, quantity |-> 1,
             discount_percent |-> 10000] \in db.item

\* C17.  Percentage parsing never aborts the run, as stated: the parsing
\* returns a value for the discount of every row of the frame, and no
\* invocation ends with the exception of a text Decimal cannot read.
C17_AsStated ==
    /\ \A i \in DOMAIN df : Has(df, {"discount_percent"}) =>
         percent_str_to_decimal(df[i].discount_percent) # <<>>
    /\ result.cause # "InvalidOperation"

\* The keys of the rows of a table.
KeysOf(tbl, key) == {r[key] : r \in tbl}

\* Every key of the tables a is a key of the tables b; the key of a
\* dimension or campaign row is the row (its id with its natural key).
KeysKept(a, b) ==
    /\ \A d \in Dims : a.dim[d] \subseteq b.dim[d]
    /\ a.campaign \subseteq b.campaign
    /\ KeysOf(a.customer, "customer_id") \subseteq KeysOf(b.customer, "customer_id")
    /\ KeysOf(a.product, "product_id") \subseteq KeysOf(b.product, "product_id")
    /\ KeysOf(a.sale, "sale_id") \subseteq KeysOf(b.sale, "sale_id")
    /\ KeysOf(a.item, "item_id") \subseteq KeysOf(b.item, "item_id")

\* C18.  Nothing is ever deleted: no step of any run removes a key from a
\* committed table.
C18_NothingDeleted == [][KeysKept(db, db')]_vars

\* A later run, of another date, committed a sale next to the sale, the
\* customer and the item of an earlier run.
C18_Witness ==
    /\ pc = "COMMITTED"
    /\ dbBefore.sale # {} /\ dbBefore.item # {} /\ dbBefore.customer # {}
    /\ KeysOf(db.sale, "sale_id") # KeysOf(dbBefore.sale, "sale_id")
    /\ KeysKept(dbBefore, db)

\* The transaction of a program on the tables t and the filtered frame, when
\* the database does not fail: how it ends and the tables it leaves.
LoadOf(program, t, frame) ==
    LET r == resolve_dimensions(program, t, frame)
        b == build_facts(program, r.work, frame, r.maps, r.campaign_map)
    IN  IF r.err # OK \/ b.err # OK
        THEN [outcome |-> "rolled back", tables |-> t]
        ELSE [outcome |-> "committed", tables |-> b.work]

\* C19.  The two programs implement the same load, as stated: on the
\* filtered frame and the tables of any run, the transaction of main.py and
\* that of the DAG end in the same way and leave the same tables.
C19_AsStated ==
    pc = "FILTERED" => LoadOf("main", db, df) = LoadOf("dag", db, df)

\* The (channel, campaign) texts of a row, as the caller hands them over and
\* looks them up.
PairOf(r) == <<Str(r.channel), Str(r.channel_campaigns)>>

\* The pairs of the frame that survive the filtering of upsert_dim_campaign.
Surviving ==
    {PairOf(df[i]) : i \in {j \in DOMAIN df :
        /\ Truthy(PairOf(df[j])[1]) /\ Truthy(PairOf(df[j])[2])
        /\ Get(maps["channel"], PairOf(df[j])[1]) # None}}

\* C20.  The campaign mapping is keyed in the caller's text space: once the
\* dimensions are resolved its keys are the surviving pairs of the frame, as
\* the caller wrote them, each mapped to the id of the campaign row of the
\* channel's id and the campaign's name; so the lookup of a surviving pair
\* finds that id.
C20_CampaignKeys ==
    pc \in {"DIMENSIONS_RESOLVED", "FACTS_BUILT", "COMMITTED"} =>
        /\ DOMAIN campaign_map = Surviving
        /\ \A k \in Surviving :
             /\ [id |-> campaign_map[k], channel_id |-> maps["channel"][k[1]], name |-> k[2]]
                  \in work.campaign
             /\ Get(campaign_map, k) = Some(campaign_map[k])

\* A run resolved the campaign of one row, which an earlier run had
\* inserted, and dropped the pair of another row.
C20_Witness ==
    /\ pc = "DIMENSIONS_RESOLVED"
    /\ \E i, j \in DOMAIN df :
         /\ PairOf(df[i]) \in DOMAIN campaign_map
         /\ PairOf(df[j]) \notin DOMAIN campaign_map
         /\ \E c \in dbBefore.campaign : c.id = campaign_map[PairOf(df[i])]

\* The tuple lists the four loops build from the frame of the run.
TupleLists ==
    [cust |-> build_cust_rows(df, maps), prod |-> build_prod_rows(impl, df, maps),
     sale |-> build_sale_rows(df, campaign_map), item |-> build_item_rows(df)]

\* No two tuples of the list have the same key.
OnePerKey(rows, key) ==
    \A i, j \in DOMAIN rows : rows[i][key] = rows[j][key] => i = j

\* The first row of the frame whose column col reads as the id n.
FirstWith(col, n) ==
    df[Kth({i \in DOMAIN df : IntOf(df[i][col]) = Some(n)}, 1)]

\* C21.  Deduplication on the natural key as stated: once the dimensions are
\* resolved, each list of tuples the loops build from the frame has at most
\* one tuple per key, and that tuple is the one built from the first row of
\* the frame that carries the key.
C21_AsStated ==
    (pc = "DIMENSIONS_RESOLVED" /\ Has(df, CustCols \cup ProdCols \cup SaleCols \cup ItemCols)) =>
      LET l == TupleLists
      IN  /\ l.cust.err = OK =>
                /\ OnePerKey(l.cust.rows, "customer_id")
                /\ \A k \in DOMAIN l.cust.rows :
                     Row(l.cust.rows[k]) =
                       customer_step(maps, FirstWith("customer_id", l.cust.rows[k].customer_id))
          /\ l.prod.err = OK =>
                /\ OnePerKey(l.prod.rows, "product_id")
                /\ \A k \in DOMAIN l.prod.rows :
                     Row(l.prod.rows[k]) =
                       product_step(impl, maps, FirstWith("product_id", l.prod.rows[k].product_id))
          /\ l.sale.err = OK =>
                /\ OnePerKey(l.sale.rows, "sale_id")
                /\ \A k \in DOMAIN l.sale.rows :
                     Row(l.sale.rows[k]) =
                       sale_step(campaign_map, FirstWith("sale_id", l.sale.rows[k].sale_id))
          /\ l.item.err = OK =>
                /\ OnePerKey(l.item.rows, "item_id")
                /\ \A k \in DOMAIN l.item.rows :
                     Row(l.item.rows[k]) =
                       item_step(FirstWith("item_id", l.item.rows[k].item_id))

\* The transaction of the invocation is over: committed or rolled back, once,
\* and the connection is closed.
Settled == io.commits + io.rollbacks = 1 /\ io.closed

\* The transaction's tables hold what every phase of the run wrote: the
\* dimension rows of the id maps and the tuples of the four loops.
AllWritten ==
    /\ \A d \in Dims : \A k \in DOMAIN maps[d] :
          \E r \in work.dim[d] : r.id = maps[d][k]
    /\ \A k \in DOMAIN campaign_map : \E r \in work.campaign : r.id = campaign_map[k]
    /\ Range(staged.cust) \subseteq work.customer
    /\ Range(staged.prod) \subseteq work.product
    /\ Range(staged.sale) \subseteq work.sale
    /\ Range(staged.item) \subseteq work.item

\* C22.  Single attempt, single transaction: a connection is opened only by
\* the step that leaves FILTERED; a commit happens only from FACTS_BUILT,
\* after the writes of every phase, and publishes them all; an invocation
\* never commits and rolls back both, nor either twice; an invocation that
\* has ended does nothing more (no second attempt, no further write) until
\* the process exits; a connection that was opened is closed when the
\* invocation ends, and every opened transaction is eventually settled.
C22_SingleTransaction ==
    /\ [][ /\ (~io.connected /\ io'.connected) => pc = "FILTERED"
           /\ io'.commits > io.commits =>
                /\ pc = "FACTS_BUILT" /\ pc' = "COMMITTED"
                /\ io.commits = 0 /\ io'.commits = 1 /\ io.rollbacks = 0
                /\ AllWritten /\ db' = work
           /\ io'.rollbacks > io.rollbacks =>
                /\ pc \in {"FILTERED", "DIMENSIONS_RESOLVED", "FACTS_BUILT"}
                /\ pc' = "ROLLED_BACK"
                /\ io.rollbacks = 0 /\ io'.rollbacks = 1 /\ io.commits = 0
                /\ db' = db
           /\ pc \in Terminal => (pc' = "idle" /\ db' = db)
           /\ (pc' \in Terminal /\ io'.connected) => (io'.closed /\ io'.commits + io'.rollbacks = 1)
           /\ (pc' \in Terminal /\ ~io'.connected) => (~io'.closed /\ io'.commits + io'.rollbacks = 0)
         ]_vars
    /\ (pc = "DIMENSIONS_RESOLVED") ~> Settled

\* The commit of a run failed: the transaction was rolled back once, not
\* committed, and the connection is closed.
C22_Witness ==
    /\ pc = "ROLLED_BACK"
    /\ staged.sale # <<>>
    /\ io.rollbacks = 1 /\ io.commits = 0 /\ io.closed

\* The statements of 3.1 and 3.2 run one after the other in the order given:
\* each simple dimension is resolved on the tables its predecessors left,
\* "campaign" is resolved with the channel map made so far.  The first
\* statement that raises ends the phase.
RECURSIVE resolve_in_order(_, _, _, _)
resolve_in_order(program, w, frame, order) ==
    IF order = <<>>
    THEN [err |-> OK, work |-> w, maps |-> NoMaps, campaign_map |-> <<>>]
    ELSE Then(resolve_in_order(program, w, frame, SubSeq(order, 1, Len(order) - 1)),
              LAMBDA prev :
         LET s == order[Len(order)]
             failed(e) == [err |-> e, work |-> w, maps |-> NoMaps, campaign_map |-> <<>>]
         IN  IF prev.err # OK THEN prev
             ELSE IF s = "campaign"
             THEN IF ~Has(frame, {"channel", "channel_campaigns"}) THEN failed("KeyError")
                  ELSE LET pairs == [i \in DOMAIN frame |->
                                       <<Str(frame[i].channel), Str(frame[i].channel_campaigns)>>]
                           c == upsert_dim_campaign(prev.work.campaign, prev.maps["channel"], pairs)
                       IN  IF c.err # OK THEN failed(c.err)
                           ELSE [prev EXCEPT !.work.campaign = c.tbl, !.campaign_map = c.map]
             ELSE IF ~Has(frame, {s}) THEN failed("KeyError")
             ELSE LET r == upsert_simple_dim(program, prev.work.dim[s], Column(frame, s))
                  IN  IF r.err # OK THEN failed(r.err)
                      ELSE [prev EXCEPT !.work.dim[s] = r.tbl, !.maps[s] = r.map])

\* The order of the code: the six simple dimensions, then the campaigns.
CodeOrder == DimOrder \o <<"campaign">>

\* The orders of the seven statements the property ranges over: the six
\* simple dimensions in every order with the campaigns last, and the order of
\* the code with the campaigns moved up to any place after the channels.
Orders ==
    {[i \in 1..7 |-> IF i = 7 THEN "campaign" ELSE p[DimOrder[i]]] :
        p \in Permutations(Dims)}
    \cup {[i \in 1..7 |-> IF i < k THEN DimOrder[i]
                          ELSE IF i = k THEN "campaign" ELSE DimOrder[i - 1]] :
            k \in 2..7}

\* The extracts of the ordering specification: rows that bring a new value,
\* a missing cell or a padded value to several dimensions at once.
OrdRows ==
    { Base,
      [Base EXCEPT !.category = "Hats", !.country = NaN, !.channel = " Online"],
      [Second EXCEPT !.channel = "Retail", !.channel_campaigns = "Summer",
                     !.brand = NaN, !.color = "Blue"] }

OrdInit ==
    /\ extract \in {[has_sale_date |-> TRUE, rows |-> rs] : rs \in SeqsUpTo(OrdRows, MaxRows)}
    /\ InitRun

OrdSpec == OrdInit /\ [][Next]_vars

\* C23.  Resolution ordering: the campaigns are resolved with the map the
\* channel resolve of the same run returned, on the tables as they were
\* before the run; and running the seven resolves in any order that keeps
\* the campaigns after the channels gives the tables and the mappings the
\* run gets, or fails when the run fails.
C23_ResolutionOrder ==
    /\ pc = "DIMENSIONS_RESOLVED" =>
         /\ maps["channel"] =
              upsert_simple_dim(impl, db.dim["channel"], Column(df, "channel")).map
         /\ campaign_map =
              upsert_dim_campaign(db.campaign, maps["channel"],
                  [i \in DOMAIN df |->
                     <<Str(df[i].channel), Str(df[i].channel_campaigns)>>]).map
         /\ LET r == resolve_in_order(impl, db, df, CodeOrder)
            IN  /\ r.err = OK
                /\ r.work = work
                /\ r.maps = maps
                /\ r.campaign_map = campaign_map
    /\ pc = "FILTERED" =>
         \E c \in {resolve_in_order(impl, db, df, CodeOrder)} :
            \A o \in Orders :
               \E r \in {resolve_in_order(impl, db, df, o)} :
                  /\ (r.err = OK) = (c.err = OK)
                  /\ r.work = c.work
                  /\ r.maps = c.maps
                  /\ r.campaign_map = c.campaign_map

\* A run resolved new values of several dimensions next to known ones.
C23_Witness ==
    /\ pc = "DIMENSIONS_RESOLVED"
    /\ Cardinality({d \in Dims : work.dim[d] # db.dim[d]}) >= 2
    /\ \E d \in Dims : db.dim[d] # {}
    /\ work.campaign # db.campaign
    /\ db.campaign # {}

\* The extracts of the money specification: rows whose cost price or total
\* amount is missing or is no number.
MoneyRows ==
    { Base, Second,
      [Base EXCEPT !.cost_price = NaN],
      [Base EXCEPT !.cost_price = "abc"],
      [Base EXCEPT !.total_amount = NaN],
      [Base EXCEPT !.total_amount = "abc"],
      [Second EXCEPT !.product_id = "2", !.cost_price = "12.5"],
      [Second EXCEPT !.cost_price = NaN, !.total_amount = NaN] }

MoneyInit ==
    /\ extract \in {[has_sale_date |-> TRUE, rows |-> rs] : rs \in SeqsUpTo(MoneyRows, MaxRows)}
    /\ InitRun

MoneySpec == MoneyInit /\ [][Next]_vars

\* The amounts a money column can hold: the numerals of the model.
Amounts == {"0", "10", "12.5"}

\* The money cell is present and is no number.
BadMoney(x) == ~isna(x) /\ DecimalOf(Str(x)) = Malformed

\* Row i of the frame has a malformed money cell that a loop reads: the cost
\* price of a product row, the total amount of the first row of a sale.
MalformedMoney(i) ==
    \/ BadMoney(df[i].cost_price) /\ ~isna(df[i].product_id)
    \/ /\ BadMoney(df[i].total_amount) /\ FirstOfSale(i)
       /\ ~isna(df[i].sale_id) /\ ~isna(df[i].customer_id)

\* C24.  Money fields as stated: every committed amount is a number, a
\* missing cost price or total amount is loaded as 0, and a run whose frame
\* has a malformed money cell in a row it builds a tuple from ends rolled
\* back with a value error, unless something failed before.
C24_AsStated ==
    /\ \A p \in db.product : p.cost_price \in Amounts
    /\ \A s \in db.sale : s.total_amount \in Amounts
    /\ pc \in {"FACTS_BUILT", "COMMITTED"} =>
         /\ \A i \in DOMAIN df :
              /\ (isna(df[i].cost_price) /\ IntOf(df[i].product_id) # <<>>) =>
                    \E k \in DOMAIN staged.prod :
                       /\ staged.prod[k].product_id = IntOf(df[i].product_id)[1]
                       /\ staged.prod[k].cost_price = "0"
              /\ (isna(df[i].total_amount) /\ FirstOfSale(i)
                    /\ IntOf(df[i].sale_id) # <<>> /\ IntOf(df[i].customer_id) # <<>>) =>
                    \E k \in DOMAIN staged.sale :
                       /\ staged.sale[k].sale_id = IntOf(df[i].sale_id)[1]
                       /\ staged.sale[k].total_amount = "0"
         /\ \A i \in DOMAIN df : ~MalformedMoney(i)
    /\ (pc = "ROLLED_BACK" /\ \E i \in DOMAIN df : MalformedMoney(i)) =>
         (result.cause = "ValueError" \/ OutsideFault \/ result.cause = "CardinalityViolation")

\* The extracts of the reference specification: rows without customer,
\* product, sale or country, and a line of the second date for the sale of
\* the first date that has no customer.
RefRows ==
    { Base, Second,
      [Base EXCEPT !.customer_id = NaN],
      [Second EXCEPT !.sale_id = "1", !.customer_id = NaN],
      [Second EXCEPT !.product_id = NaN, !.item_id = NaN],
      [Second EXCEPT !.sale_id = NaN, !.product_id = "2"],
      [Base EXCEPT !.country = NaN, !.item_id = NaN],
      [Second EXCEPT !.customer_id = "2", !.country = " FR", !.channel = " "] }

RefInit ==
    /\ extract \in {[has_sale_date |-> TRUE, rows |-> rs] : rs \in SeqsUpTo(RefRows, MaxRows)}
    /\ InitRun

RefSpec == RefInit /\ [][Next]_vars

\* The optional id x is null or the id of a row of the dimension table.
RefersTo(x, tbl) == x = None \/ \E r \in tbl : r.id = x[1]

\* C25.  Referential integrity of the committed tables: every sale item has
\* its sale and its product, every sale its customer and its campaign, and
\* every dimension id of a customer or a product that is not null is the id
\* of a row of its dimension.
C25_ReferentialIntegrity ==
    /\ \A i \in db.item :
         /\ i.sale_id \in KeysOf(db.sale, "sale_id")
         /\ i.product_id \in KeysOf(db.product, "product_id")
    /\ \A s \in db.sale :
         /\ s.customer_id \in KeysOf(db.customer, "customer_id")
         /\ \E c \in db.campaign : c.id = s.campaign_id
    /\ \A c \in db.customer : RefersTo(c.country_id, db.dim["country"])
    /\ \A p \in db.product :
         /\ RefersTo(p.category_id, db.dim["category"])
         /\ RefersTo(p.brand_id, db.dim["brand"])
         /\ RefersTo(p.color_id, db.dim["color"])
         /\ RefersTo(p.size_id, db.dim["size"])

\* A run committed an item of a sale whose row in the frame has no customer:
\* the sale tuple was skipped, the item refers to the sale of an earlier run.
C25_Witness ==
    /\ pc = "COMMITTED"
    /\ \E i \in DOMAIN df :
         /\ isna(df[i].customer_id) /\ FirstOfSale(i)
         /\ \E k \in DOMAIN staged.item : Some(staged.item[k].sale_id) = IntOf(df[i].sale_id)
         /\ \A k \in DOMAIN staged.sale : Some(staged.sale[k].sale_id) # IntOf(df[i].sale_id)
    /\ \E c \in db.customer : c.country_id = None

\* The column of a customer or product tuple that holds the id of dimension d.
IdColumn(d) ==
    CASE d = "country"  -> "country_id"
      [] d = "category" -> "category_id"
      [] d = "brand"    -> "brand_id"
      [] d = "color"    -> "color_id"
      [] d = "size"     -> "size_id"

\* The tuple t carries under col the id of the row of the dimension d that
\* is named by the text x, as it is written or trimmed.
CarriesIdOf(t, col, d, x) ==
    /\ t[col] # None
    /\ \E r \in work.dim[d] : r.id = t[col][1] /\ r.name \in {x, Strip(x)}

\* C26.  The foreign-key lookup as stated: in a run that built its tuples,
\* every row of the frame with a customer id and a country text has a
\* customer tuple that carries the id of that country, and every row with a
\* product id and a category, brand, color or size text a product tuple that
\* carries the id of that text's dimension row.
C26_AsStated ==
    pc \in {"FACTS_BUILT", "COMMITTED"} =>
      \A i \in DOMAIN df :
         /\ (IntOf(df[i].customer_id) # <<>> /\ Present(df[i].country)) =>
               \E k \in DOMAIN staged.cust :
                  /\ Some(staged.cust[k].customer_id) = IntOf(df[i].customer_id)
                  /\ CarriesIdOf(staged.cust[k], "country_id", "country", df[i].country)
         /\ IntOf(df[i].product_id) # <<>> =>
               \A d \in {"category", "brand", "color", "size"} :
                  Present(df[i][d]) =>
                     \E k \in DOMAIN staged.prod :
                        /\ Some(staged.prod[k].product_id) = IntOf(df[i].product_id)
                        /\ CarriesIdOf(staged.prod[k], IdColumn(d), d, df[i][d])

\* The rows by which the tables old and new differ have keys that occur in
\* the column col of the frame.
OnlyKeysOfFrame(old, new, key, col) ==
    \A r \in (old \ new) \cup (new \ old) :
       \E i \in DOMAIN df : IntOf(df[i][col]) = Some(r[key])

\* C27.  Frame of a run: the frame of a committed run holds only rows of its
\* business date; the customers, products, sales and sale items the run
\* added or changed have keys that occur in the frame, so every other row is
\* as it was; every dimension and campaign row of before the run is still
\* there unchanged; and every sale the run wrote has the run's date.
C27_Frame ==
    pc = "COMMITTED" =>
      /\ \A i \in DOMAIN df : df[i].sale_date = run_dt
      /\ OnlyKeysOfFrame(dbBefore.customer, db.customer, "customer_id", "customer_id")
      /\ OnlyKeysOfFrame(dbBefore.product, db.product, "product_id", "product_id")
      /\ OnlyKeysOfFrame(dbBefore.sale, db.sale, "sale_id", "sale_id")
      /\ OnlyKeysOfFrame(dbBefore.item, db.item, "item_id", "item_id")
      /\ \A d \in Dims : dbBefore.dim[d] \subseteq db.dim[d]
      /\ dbBefore.campaign \subseteq db.campaign
      /\ \A k \in DOMAIN staged.sale : staged.sale[k].sale_date = run_dt
      /\ \A s \in db.sale \ dbBefore.sale : s.sale_date = run_dt

\* A run of the second date committed: it changed a customer of the first
\* date's run, added a sale, and left the first date's sale and item, whose
\* keys are not in its frame, as they were.
C27_Witness ==
    /\ pc = "COMMITTED"
    /\ \E c \in dbBefore.customer : c \notin db.customer
    /\ db.sale \ dbBefore.sale # {}
    /\ \E s \in dbBefore.sale :
         /\ s \in db.sale
         /\ \A i \in DOMAIN df : IntOf(df[i].sale_id) # Some(s.sale_id)
    /\ \E x \in dbBefore.item :
         /\ x \in db.item
         /\ \A i \in DOMAIN df : IntOf(df[i].item_id) # Some(x.item_id)

============================================================================
